---- MODULE Spec2Model ----
(***************************************************************************)
(* Model of vtpm-snp/src/report.rs: parsing an SEV-SNP attestation report  *)
(* with bincode and validating it against a VCEK certificate (TCB gate,    *)
(* then ECDSA/SHA-384 signature check over the report without its          *)
(* signature field).                                                       *)
(*                                                                         *)
(* The report layout is scaled down: every field keeps its place and its   *)
(* encoding (fixed-width little-endian integers, raw byte arrays, the      *)
(* trailing signature structure r | s | reserved), only the widths and the *)
(* byte range are small.  SHA-384 and ECDSA are idealised: the digest is   *)
(* collision free on the messages of the model and a signature verifies    *)
(* only for the key and digest it was made for.                            *)
(***************************************************************************)
EXTENDS Integers, Sequences, FiniteSets, TLC

\* ------------------------------------------------------------- bounds
\* Largest value of a byte of the model (a u8 ranges over 0..ByteMax).
ByteMax == 1
\* A wire buffer is at most MaxExtra bytes shorter or longer than a report.
MaxExtra == 1

Byte == 0..ByteMax
Base == ByteMax + 1

\* ------------------------------------------------------------- layout
\* Widths, in bytes, of the fields of AttestationReport and Signature.
VersionLen == 2
TcbLen == 1
ReservedLen == 1
SigCompLen == 6
SigReservedLen == 1

\* std::mem::size_of::<Signature>() and std::mem::size_of::<AttestationReport>()
SizeOfSignature == SigCompLen + SigCompLen + SigReservedLen
SizeOfReport == VersionLen + TcbLen + TcbLen + ReservedLen + SizeOfSignature

\* ------------------------------------------------------------- bytes
RECURSIVE LeToNum(_)
\* The unsigned integer a little-endian byte string stands for.
LeToNum(bs) == IF bs = <<>> THEN 0 ELSE Head(bs) + Base * LeToNum(Tail(bs))

\* The w-byte little-endian encoding of n (bincode's fixint encoding).
NumToLe(n, w) == [i \in 1..w |-> (n \div (Base ^ (i - 1))) % Base]

Take(bs, off, n) == SubSeq(bs, off + 1, off + n)

Zeros(n) == [i \in 1..n |-> 0]

\* ------------------------------------------------------------- codec
NoReport ==
    [version |-> 0, reported_tcb |-> Zeros(TcbLen), committed_tcb |-> Zeros(TcbLen),
     reserved |-> Zeros(ReservedLen),
     signature |-> [r |-> Zeros(SigCompLen), s |-> Zeros(SigCompLen),
                    reserved |-> Zeros(SigReservedLen)]]

SerializeZeroReserved(r) ==
    [ok |-> TRUE,
     bytes |-> NumToLe(r.version, VersionLen) \o r.reported_tcb \o r.committed_tcb
               \o Zeros(ReservedLen) \o r.signature.r \o r.signature.s
               \o r.signature.reserved]

\* bincode::serialize(report): the fields in declaration order, integers as
\* fixed-width little-endian, byte arrays raw, no length prefixes.  Writing a
\* fixed-size structure into a Vec has no failing case.
Serialize(r) ==
    [ok |-> TRUE,
     bytes |-> NumToLe(r.version, VersionLen) \o r.reported_tcb \o r.committed_tcb
               \o r.reserved \o r.signature.r \o r.signature.s
               \o r.signature.reserved]

\* bincode::deserialize(bytes): reads the fields in order from the front of the
\* buffer and fails (unexpected end of input) when the buffer runs out; the
\* legacy entry point allows trailing bytes, which are left unread.
Deserialize(bytes) ==
    LET o1 == VersionLen
        o2 == o1 + TcbLen
        o3 == o2 + TcbLen
        o4 == o3 + ReservedLen
        o5 == o4 + SigCompLen
        o6 == o5 + SigCompLen
        o7 == o6 + SigReservedLen
    IN IF Len(bytes) < o7
       THEN [ok |-> FALSE, value |-> NoReport]
       ELSE [ok |-> TRUE,
             value |->
               [version |-> LeToNum(Take(bytes, 0, VersionLen)),
                reported_tcb |-> Take(bytes, o1, TcbLen),
                committed_tcb |-> Take(bytes, o2, TcbLen),
                reserved |-> Take(bytes, o3, ReservedLen),
                signature |-> [r |-> Take(bytes, o4, SigCompLen),
                               s |-> Take(bytes, o5, SigCompLen),
                               reserved |-> Take(bytes, o6, SigReservedLen)]]]

\* ------------------------------------------------------------- providers
\* Sha384 (openssl::sha): new() starts an empty message, update() appends,
\* finish() yields the digest.  The digest is collision free on the messages
\* of the model: it numbers the message by its bytes and its length.
Sha384Finish(data) == LeToNum(data) + Base ^ Len(data)

Reverse(bs) == [i \in 1..Len(bs) |-> bs[Len(bs) + 1 - i]]

SignatureTryIntoBe(sig, be) ==
    IF be = "sig_fault"
    THEN [ok |-> FALSE, value |-> [r |-> 0, s |-> 0]]
    ELSE [ok |-> TRUE,
          value |-> [r |-> LeToNum(Reverse(sig.r)), s |-> LeToNum(Reverse(sig.s))]]

\* (&Signature).try_into(): BigNum::from_le on r and on s, then
\* EcdsaSig::from_private_components.  The only failure is one the backend
\* reports (an ErrorStack), whatever the bytes are.
SignatureTryInto(sig, be) ==
    IF be = "sig_fault"
    THEN [ok |-> FALSE, value |-> [r |-> 0, s |-> 0]]
    ELSE [ok |-> TRUE, value |-> [r |-> LeToNum(sig.r), s |-> LeToNum(sig.s)]]

\* X509::public_key(): fails on a certificate whose key cannot be decoded.
X509PublicKey(cert) == [ok |-> cert.kind # "undecodable", value |-> cert]

\* PKey::ec_key(): fails on a key that is not an elliptic-curve key.
PKeyEcKey(pkey) == [ok |-> pkey.kind = "ec", value |-> pkey.id]

\* EcdsaSig::verify(digest, pubkey): Ok(true) exactly for the signature made
\* with the matching private key over this digest, Ok(false) for any other,
\* Err when the backend itself fails.
EcdsaSigVerify(sig, dgst, pubkey, be) ==
    IF be = "verify_fault"
    THEN [ok |-> FALSE, value |-> FALSE]
    ELSE [ok |-> TRUE, value |-> (sig.r = pubkey /\ sig.s = dgst)]

\* ------------------------------------------------------------- report.rs
is_tcb_data_valid_always(report) == TRUE

is_tcb_data_valid(report) == report.reported_tcb = report.committed_tcb

get_report_base_oob(report) ==
    LET report_len == SizeOfReport
        signature_len == SizeOfSignature
        ser == Serialize(report)
        bound == report_len + signature_len
    IN IF ~ser.ok THEN [status |-> "err", bytes |-> <<>>]
       ELSE IF bound < 0 \/ bound > Len(ser.bytes)
            THEN [status |-> "panic", bytes |-> <<>>]
            ELSE [status |-> "ok", bytes |-> SubSeq(ser.bytes, 1, bound)]

get_report_base_whole(report) ==
    LET ser == Serialize(report)
    IN IF ~ser.ok THEN [status |-> "err", bytes |-> <<>>]
       ELSE [status |-> "ok", bytes |-> ser.bytes]

\* The slice &bytes[0..(report_len - signature_len)] panics when its bound is
\* out of range (or the usize subtraction underflows).
get_report_base(report) ==
    LET report_len == SizeOfReport
        signature_len == SizeOfSignature
        ser == Serialize(report)
        bound == report_len - signature_len
    IN IF ~ser.ok THEN [status |-> "err", bytes |-> <<>>]
       ELSE IF bound < 0 \/ bound > Len(ser.bytes)
            THEN [status |-> "panic", bytes |-> <<>>]
            ELSE [status |-> "ok", bytes |-> SubSeq(ser.bytes, 1, bound)]

\* ------------------------------------------------------------- state
Callers == {1, 2}

VARIABLES
    wire,          \* the byte buffer each caller hands to parse
    report,        \* the AttestationReport parse decoded
    vcek,          \* the certificate each caller hands to validate
    backend,       \* how the cryptographic backend behaves for the caller
    pc,            \* where each caller stands
    report_sig,    \* validate's local report_sig
    vcek_pubkey,   \* validate's local vcek_pubkey
    hasher,        \* the message each Sha384 hasher has been fed
    base_message,  \* validate's local base_message
    digest,        \* validate's local base_message_digest
    result,        \* what parse / validate returned
    calls,         \* the provider and codec operations validate has invoked
    tampered       \* the buffer was altered after validate accepted it

vars == <<wire, report, vcek, backend, pc, report_sig, vcek_pubkey, hasher,
          base_message, digest, result, calls, tampered>>

\* ------------------------------------------------------------- inputs
PrefixLen == SizeOfReport - SizeOfSignature

Prefixes == [1..PrefixLen -> Byte]

Vceks ==
    {[kind |-> "ec", id |-> 1], [kind |-> "ec", id |-> 2],
     [kind |-> "rsa", id |-> 0], [kind |-> "undecodable", id |-> 0]}

NoVcek == [kind |-> "none", id |-> 0]

Backends == {"ok", "sig_fault", "verify_fault"}

\* The signature field the firmware writes with signing key k over digest d:
\* r and s little-endian, zero-extended to the component width.
FirmwareSignature(k, d, pad) ==
    NumToLe(k, SigCompLen) \o NumToLe(d, SigCompLen) \o pad

\* Buffers of exactly the report length: any bytes before the signature, and a
\* signature by key 1 or 2 over those bytes (e = 0) or over other bytes (e = 1).
ExactWires ==
    {p \o FirmwareSignature(k, Sha384Finish(p) + e, pad) :
        p \in Prefixes, k \in 1..2, e \in 0..1,
        pad \in [1..SigReservedLen -> Byte]}

ShortWires == {SubSeq(w, 1, Len(w) - n) : w \in ExactWires, n \in 1..MaxExtra}

LongWires == {w \o [i \in 1..n |-> ByteMax] : w \in ExactWires, n \in 1..MaxExtra}

WireInputs == ExactWires \cup ShortWires \cup LongWires

\* The buffers of the concurrent runs: exact length, TCB fields free.
ConcWires ==
    {w \in ExactWires :
        /\ \A i \in 1..(VersionLen + TcbLen) : w[i] = 0
        /\ \A i \in (VersionLen + 2 * TcbLen + 1)..PrefixLen : w[i] = 0
        /\ w[PrefixLen + 1] = 1
        /\ \A i \in (SizeOfReport - SigReservedLen + 1)..SizeOfReport : w[i] = 0}

HasherOfShared(c) == 1

\* let mut hasher = Sha384::new(): every call of validate owns its hasher.
HasherOf(c) == c

Locals(c) ==
    /\ report_sig' = [report_sig EXCEPT ![c] = [r |-> 0, s |-> 0]]
    /\ vcek_pubkey' = [vcek_pubkey EXCEPT ![c] = 0]
    /\ base_message' = [base_message EXCEPT ![c] = <<>>]
    /\ digest' = [digest EXCEPT ![c] = 0]

InitLocals ==
    /\ report = [c \in Callers |-> NoReport]
    /\ vcek = [c \in Callers |-> NoVcek]
    /\ report_sig = [c \in Callers |-> [r |-> 0, s |-> 0]]
    /\ vcek_pubkey = [c \in Callers |-> 0]
    /\ hasher = [h \in Callers |-> <<>>]
    /\ base_message = [c \in Callers |-> <<>>]
    /\ digest = [c \in Callers |-> 0]
    /\ result = [c \in Callers |-> "none"]
    /\ calls = [c \in Callers |-> <<>>]
    /\ tampered = [c \in Callers |-> FALSE]

\* One caller, any buffer, any backend behaviour.
Init ==
    /\ \E w \in WireInputs : wire = [c \in Callers |-> IF c = 1 THEN w ELSE <<>>]
    /\ \E b \in Backends : backend = [c \in Callers |-> IF c = 1 THEN b ELSE "ok"]
    /\ pc = [c \in Callers |-> IF c = 1 THEN "parse" ELSE "idle"]
    /\ InitLocals

\* Two callers, each with a buffer of its own.
InitConc ==
    /\ wire \in [Callers -> ConcWires]
    /\ backend \in [Callers -> Backends]
    /\ pc = [c \in Callers |-> "parse"]
    /\ InitLocals

\* ------------------------------------------------------------- steps
Return(c, r) ==
    /\ result' = [result EXCEPT ![c] = r]
    /\ pc' = [pc EXCEPT ![c] = "done"]

Goto(c, l) ==
    /\ pc' = [pc EXCEPT ![c] = l]
    /\ UNCHANGED result

Invoke(c, op) == calls' = [calls EXCEPT ![c] = Append(@, op)]

\* parse: bincode::deserialize(bytes)?, then Ok(decoded).
parse(c) ==
    /\ pc[c] = "parse"
    /\ LET d == Deserialize(wire[c])
       IN IF d.ok
          THEN /\ report' = [report EXCEPT ![c] = d.value]
               /\ pc' = [pc EXCEPT ![c] = "validate"]
               /\ result' = [result EXCEPT ![c] = "none"]
          ELSE /\ report' = report
               /\ pc' = [pc EXCEPT ![c] = "parse_failed"]
               /\ result' = [result EXCEPT ![c] = "DecodeError"]
    /\ UNCHANGED <<wire, vcek, backend, report_sig, vcek_pubkey, hasher,
                   base_message, digest, calls, tampered>>

\* validate, entry: the caller passes a certificate; the TCB gate.
validate_tcb(c) ==
    /\ pc[c] = "validate"
    /\ \E k \in (IF tampered[c] THEN {vcek[c]} ELSE Vceks) :
          vcek' = [vcek EXCEPT ![c] = k]
    /\ IF ~is_tcb_data_valid(report[c])
       THEN Return(c, "Tcb")
       ELSE Goto(c, "try_into")
    /\ UNCHANGED <<wire, report, backend, report_sig, vcek_pubkey, hasher,
                   base_message, digest, calls, tampered>>

try_into_misclassified(c) ==
    /\ pc[c] = "try_into"
    /\ Invoke(c, "try_into")
    /\ LET r == SignatureTryInto(report[c].signature, backend[c])
       IN IF r.ok
          THEN /\ report_sig' = [report_sig EXCEPT ![c] = r.value]
               /\ Goto(c, "public_key")
          ELSE /\ report_sig' = report_sig
               /\ Return(c, "MeasurementSignature")
    /\ UNCHANGED <<wire, report, vcek, backend, vcek_pubkey, hasher,
                   base_message, digest, tampered>>

\* let report_sig: EcdsaSig = (&self.signature).try_into()?;
try_into(c) ==
    /\ pc[c] = "try_into"
    /\ Invoke(c, "try_into")
    /\ LET r == SignatureTryInto(report[c].signature, backend[c])
       IN IF r.ok
          THEN /\ report_sig' = [report_sig EXCEPT ![c] = r.value]
               /\ Goto(c, "public_key")
          ELSE /\ report_sig' = report_sig
               /\ Return(c, "OpenSsl")
    /\ UNCHANGED <<wire, report, vcek, backend, vcek_pubkey, hasher,
                   base_message, digest, tampered>>

public_key_no_return(c) ==
    /\ pc[c] = "public_key"
    /\ Invoke(c, "public_key")
    /\ Goto(c, "ec_key")
    /\ UNCHANGED <<wire, report, vcek, backend, report_sig, vcek_pubkey, hasher,
                   base_message, digest, tampered>>

\* vcek.0.public_key()?
public_key(c) ==
    /\ pc[c] = "public_key"
    /\ Invoke(c, "public_key")
    /\ IF X509PublicKey(vcek[c]).ok
       THEN Goto(c, "ec_key")
       ELSE Return(c, "OpenSsl")
    /\ UNCHANGED <<wire, report, vcek, backend, report_sig, vcek_pubkey, hasher,
                   base_message, digest, tampered>>

\* .ec_key()?, bound to vcek_pubkey
ec_key(c) ==
    /\ pc[c] = "ec_key"
    /\ Invoke(c, "ec_key")
    /\ LET k == PKeyEcKey(X509PublicKey(vcek[c]).value)
       IN IF k.ok
          THEN /\ vcek_pubkey' = [vcek_pubkey EXCEPT ![c] = k.value]
               /\ Goto(c, "sha384_new")
          ELSE /\ vcek_pubkey' = vcek_pubkey
               /\ Return(c, "OpenSsl")
    /\ UNCHANGED <<wire, report, vcek, backend, report_sig, hasher,
                   base_message, digest, tampered>>

\* let mut hasher = Sha384::new();
sha384_new(c) ==
    /\ pc[c] = "sha384_new"
    /\ Invoke(c, "sha384_new")
    /\ hasher' = [hasher EXCEPT ![HasherOf(c)] = <<>>]
    /\ Goto(c, "get_report_base")
    /\ UNCHANGED <<wire, report, vcek, backend, report_sig, vcek_pubkey,
                   base_message, digest, tampered>>

\* let base_message = get_report_base(self)?;
serialize(c) ==
    /\ pc[c] = "get_report_base"
    /\ Invoke(c, "serialize")
    /\ LET b == get_report_base(report[c])
       IN CASE b.status = "ok" ->
                 /\ base_message' = [base_message EXCEPT ![c] = b.bytes]
                 /\ Goto(c, "sha384_update")
            [] b.status = "err" ->
                 /\ base_message' = base_message
                 /\ Return(c, "Bincode")
            [] OTHER ->
                 /\ base_message' = base_message
                 /\ pc' = [pc EXCEPT ![c] = "aborted"]
                 /\ result' = [result EXCEPT ![c] = "panic"]
    /\ UNCHANGED <<wire, report, vcek, backend, report_sig, vcek_pubkey, hasher,
                   digest, tampered>>

\* hasher.update(&base_message);
sha384_update(c) ==
    /\ pc[c] = "sha384_update"
    /\ Invoke(c, "sha384_update")
    /\ hasher' = [hasher EXCEPT ![HasherOf(c)] = @ \o base_message[c]]
    /\ Goto(c, "sha384_finish")
    /\ UNCHANGED <<wire, report, vcek, backend, report_sig, vcek_pubkey,
                   base_message, digest, tampered>>

\* let base_message_digest = hasher.finish();
sha384_finish(c) ==
    /\ pc[c] = "sha384_finish"
    /\ Invoke(c, "sha384_finish")
    /\ digest' = [digest EXCEPT ![c] = Sha384Finish(hasher[HasherOf(c)])]
    /\ Goto(c, "verify")
    /\ UNCHANGED <<wire, report, vcek, backend, report_sig, vcek_pubkey, hasher,
                   base_message, tampered>>

verify_accepts_all(c) ==
    /\ pc[c] = "verify"
    /\ Invoke(c, "verify")
    /\ Return(c, "Ok")
    /\ UNCHANGED <<wire, report, vcek, backend, report_sig, vcek_pubkey, hasher,
                   base_message, digest, tampered>>

\* if !report_sig.verify(&base_message_digest, &vcek_pubkey)? { Err(..) } Ok(())
verify(c) ==
    /\ pc[c] = "verify"
    /\ Invoke(c, "verify")
    /\ LET v == EcdsaSigVerify(report_sig[c], digest[c], vcek_pubkey[c], backend[c])
       IN IF ~v.ok THEN Return(c, "OpenSsl")
          ELSE IF ~v.value THEN Return(c, "MeasurementSignature")
          ELSE Return(c, "Ok")
    /\ UNCHANGED <<wire, report, vcek, backend, report_sig, vcek_pubkey, hasher,
                   base_message, digest, tampered>>

\* After validate accepted a report, one byte before the signature field of
\* the buffer is altered and the buffer is parsed and validated again, with
\* the same certificate.
Tamper(c) ==
    /\ pc[c] = "done"
    /\ result[c] = "Ok"
    /\ ~tampered[c]
    /\ \E i \in 1..PrefixLen : \E b \in Byte \ {wire[c][i]} :
          wire' = [wire EXCEPT ![c][i] = b]
    /\ tampered' = [tampered EXCEPT ![c] = TRUE]
    /\ pc' = [pc EXCEPT ![c] = "parse"]
    /\ result' = [result EXCEPT ![c] = "none"]
    /\ calls' = [calls EXCEPT ![c] = <<>>]
    /\ report' = [report EXCEPT ![c] = NoReport]
    /\ hasher' = [hasher EXCEPT ![HasherOf(c)] = <<>>]
    /\ Locals(c)
    /\ UNCHANGED <<vcek, backend>>

Step(c) ==
    \/ parse(c)
    \/ validate_tcb(c)
    \/ try_into(c)
    \/ public_key(c)
    \/ ec_key(c)
    \/ sha384_new(c)
    \/ serialize(c)
    \/ sha384_update(c)
    \/ sha384_finish(c)
    \/ verify(c)

Next == \E c \in Callers : Step(c) \/ Tamper(c)

NextConc == \E c \in Callers : Step(c)

Spec == Init /\ [][Next]_vars

SpecConc == InitConc /\ [][NextConc]_vars

\* ------------------------------------------------------------- validate, run alone
\* The statements of validate in program order, as one function of its inputs.
validate(r, k, be) ==
    LET sig == SignatureTryInto(r.signature, be)
        pkey == X509PublicKey(k)
        ec == PKeyEcKey(pkey.value)
        base == get_report_base(r)
        v == EcdsaSigVerify(sig.value, Sha384Finish(base.bytes), ec.value, be)
    IN IF ~is_tcb_data_valid(r) THEN "Tcb"
       ELSE IF ~sig.ok THEN "OpenSsl"
       ELSE IF ~pkey.ok THEN "OpenSsl"
       ELSE IF ~ec.ok THEN "OpenSsl"
       ELSE IF base.status = "err" THEN "Bincode"
       ELSE IF base.status = "panic" THEN "panic"
       ELSE IF ~v.ok THEN "OpenSsl"
       ELSE IF ~v.value THEN "MeasurementSignature"
       ELSE "Ok"

\* The operations validate invokes after the TCB gate, in program order.
CodeOrder ==
    <<"try_into", "public_key", "ec_key", "sha384_new", "serialize",
      "sha384_update", "sha384_finish", "verify">>

\* ------------------------------------------------------------- vocabulary
\* The values of ValidateError that validate can construct, and Ok(()).
ValidateResults == {"Ok", "Tcb", "OpenSsl", "MeasurementSignature", "Bincode"}

\* The caller's parse has returned a report.
Parsed(c) == pc[c] \notin {"idle", "parse", "parse_failed"}

\* The caller's validate has been entered and has passed or failed the TCB gate.
Entered(c) == Parsed(c) /\ pc[c] # "validate"

Returned(c) == pc[c] = "done"

HasCalled(c, op) == \E i \in DOMAIN calls[c] : calls[c][i] = op

IsPrefix(s, t) == Len(s) <= Len(t) /\ \A i \in 1..Len(s) : s[i] = t[i]

\* signed_prefix(report): encode(report)[0 .. total_length - signature_length].
SignedPrefix(r) ==
    SubSeq(Serialize(r).bytes, 1, SizeOfReport - SizeOfSignature)

\* The signature conversion and the key extraction succeed.
SigWellFormed(c) == SignatureTryInto(report[c].signature, backend[c]).ok

KeyExtracted(c) == X509PublicKey(vcek[c]).ok /\ PKeyEcKey(vcek[c]).ok

\* What ECDSA verification of SHA-384(signed_prefix(report)) against the
\* report's signature and the certificate's key reports.
Verification(c) ==
    EcdsaSigVerify(SignatureTryInto(report[c].signature, backend[c]).value,
                   Sha384Finish(SignedPrefix(report[c])),
                   PKeyEcKey(vcek[c]).value, backend[c])

\* The embedded signature is the one the holder of the certificate's private
\* key makes over signed_prefix(report).
CorrectlySigned(c) ==
    /\ vcek[c].kind = "ec"
    /\ report[c].signature.r = NumToLe(vcek[c].id, SigCompLen)
    /\ report[c].signature.s =
          NumToLe(Sha384Finish(SignedPrefix(report[c])), SigCompLen)

\* ------------------------------------------------------------- claims
\* C1: validate returns success only if reported_tcb equals committed_tcb and
\* the ECDSA verification of SHA-384(signed_prefix(report)) against the
\* report's signature and the certificate's EC public key reported true; in
\* every other case it returns an error, never success.
C1_SuccessOnlyIfValid ==
    \A c \in Callers :
        Returned(c) =>
            /\ result[c] \in ValidateResults
            /\ result[c] = "Ok" =>
                  /\ report[c].reported_tcb = report[c].committed_tcb
                  /\ SigWellFormed(c) /\ KeyExtracted(c)
                  /\ Verification(c).ok /\ Verification(c).value
            /\ ~(/\ report[c].reported_tcb = report[c].committed_tcb
                 /\ SigWellFormed(c) /\ KeyExtracted(c)
                 /\ Verification(c).ok /\ Verification(c).value)
                  => result[c] \in ValidateResults \ {"Ok"}

\* A call of validate has returned success.
C1_Witness == \E c \in Callers : Returned(c) /\ result[c] = "Ok"

\* C2: for a report with reported_tcb # committed_tcb, validate returns Tcb
\* and has invoked no provider or codec operation at any point of the call,
\* whatever the signature bytes, the certificate and the backend are.
C2_TcbGateFirst ==
    \A c \in Callers :
        (Entered(c) /\ report[c].reported_tcb # report[c].committed_tcb) =>
            /\ calls[c] = <<>>
            /\ Returned(c)
            /\ result[c] = "Tcb"

\* A report with differing TCB fields was rejected although its certificate
\* has no EC key and the backend cannot convert the signature.
C2_Witness ==
    \E c \in Callers :
        /\ Returned(c) /\ result[c] = "Tcb"
        /\ report[c].reported_tcb # report[c].committed_tcb
        /\ vcek[c].kind # "ec"
        /\ backend[c] = "sig_fault"

\* C3: for a report whose TCB fields are consistent and whose embedded
\* signature was made over signed_prefix(report) with the private key of the
\* supplied certificate, validate returns success (the backend working).
C3_ValidSignatureAccepted ==
    \A c \in Callers :
        (/\ Returned(c)
         /\ report[c].reported_tcb = report[c].committed_tcb
         /\ CorrectlySigned(c)
         /\ backend[c] = "ok") => result[c] = "Ok"

\* A consistent, correctly signed report has been validated.
C3_Witness ==
    \E c \in Callers :
        /\ Returned(c)
        /\ report[c].reported_tcb = report[c].committed_tcb
        /\ CorrectlySigned(c)
        /\ backend[c] = "ok"
        /\ result[c] = "Ok"

\* C4: parse on a buffer shorter or longer than the fixed report length
\* returns a decode error and yields no report; parse succeeds only for
\* buffers of exactly the fixed report length.
C4_ExactLengthOnly ==
    \A c \in Callers :
        /\ Parsed(c) => Len(wire[c]) = SizeOfReport
        /\ (pc[c] # "idle" /\ pc[c] # "parse" /\ Len(wire[c]) # SizeOfReport) =>
              (pc[c] = "parse_failed" /\ result[c] = "DecodeError")

\* C5: for a buffer b of the fixed report length, the message validate hashes
\* for parse(b) is the first SizeOfReport - SizeOfSignature bytes of b: no
\* byte of the signature field, and every byte before it (reserved bytes
\* included) as on the wire.
C5_BaseIsWirePrefix ==
    \A c \in Callers :
        (Len(wire[c]) = SizeOfReport /\ HasCalled(c, "serialize")
            /\ pc[c] # "aborted" /\ result[c] # "Bincode") =>
            /\ base_message[c] = SubSeq(wire[c], 1, SizeOfReport - SizeOfSignature)
            /\ HasCalled(c, "sha384_update") =>
                  hasher[c] = SubSeq(wire[c], 1, SizeOfReport - SizeOfSignature)
            /\ HasCalled(c, "sha384_finish") =>
                  digest[c] =
                     Sha384Finish(SubSeq(wire[c], 1, SizeOfReport - SizeOfSignature))

\* The digest of a parsed buffer with a non-zero reserved byte was computed.
C5_Witness ==
    \E c \in Callers :
        /\ Len(wire[c]) = SizeOfReport
        /\ HasCalled(c, "sha384_finish")
        /\ report[c].reserved # Zeros(ReservedLen)
        /\ report[c].version # 0

\* C6: from a report validate accepted under a certificate, altering a byte
\* of a field before the signature, the TCB fields still equal, makes validate
\* with the same certificate return MeasurementSignature.
C6_TamperDetected ==
    \A c \in Callers :
        (tampered[c] /\ Returned(c)
            /\ report[c].reported_tcb = report[c].committed_tcb) =>
            result[c] = "MeasurementSignature"

\* An altered report with equal TCB fields was rejected for its signature.
C6_Witness ==
    \E c \in Callers :
        /\ tampered[c] /\ Returned(c)
        /\ report[c].reported_tcb = report[c].committed_tcb
        /\ result[c] = "MeasurementSignature"

\* C7: with consistent TCB fields, a signature the backend cannot convert
\* yields OpenSsl; a certificate whose EC key cannot be extracted yields
\* OpenSsl; a converted signature and an extracted key for which verification
\* evaluates to false yield MeasurementSignature; the signature stage returns
\* no other error, never MeasurementSignature for a backend failure and never
\* OpenSsl for a cleanly evaluated mismatch.
C7_ErrorClasses ==
    \A c \in Callers :
        (Returned(c) /\ report[c].reported_tcb = report[c].committed_tcb) =>
            /\ ~SigWellFormed(c) => result[c] = "OpenSsl"
            /\ ~KeyExtracted(c) => result[c] = "OpenSsl"
            /\ (SigWellFormed(c) /\ KeyExtracted(c)
                  /\ Verification(c).ok /\ ~Verification(c).value)
                  => result[c] = "MeasurementSignature"
            /\ result[c] \in {"Ok", "OpenSsl", "MeasurementSignature"}
            /\ result[c] = "MeasurementSignature" =>
                  (SigWellFormed(c) /\ KeyExtracted(c) /\ Verification(c).ok)
            /\ result[c] = "OpenSsl" =>
                  (~SigWellFormed(c) \/ ~KeyExtracted(c) \/ ~Verification(c).ok)

\* The signature of a consistent report could not be converted, and validate
\* returned the backend error.
C7_Witness ==
    \E c \in Callers :
        /\ Returned(c) /\ report[c].reported_tcb = report[c].committed_tcb
        /\ ~SigWellFormed(c)
        /\ vcek[c].kind = "ec"
        /\ result[c] = "OpenSsl"

\* C8: callers running parse and validate concurrently on buffers and
\* certificates of their own get, under every interleaving of their steps,
\* the result each call returns when run alone, and no step changes a
\* caller's buffer, decoded report or certificate.
C8_SameAsAlone ==
    /\ [](\A c \in Callers :
            Returned(c) =>
               result[c] = validate(Deserialize(wire[c]).value, vcek[c], backend[c]))
    /\ [][\A c \in Callers :
            /\ wire'[c] = wire[c]
            /\ Parsed(c) => report'[c] = report[c]
            /\ Entered(c) => vcek'[c] = vcek[c]]_vars

\* One caller's validate has accepted its report while the other caller is
\* in the middle of hashing its own.
C8_Witness ==
    /\ Returned(1) /\ result[1] = "Ok"
    /\ pc[2] = "sha384_finish"
    /\ wire[1] # wire[2]

\* C9 as stated: after the TCB gate the steps run in the order signed prefix,
\* digest, signature conversion, key extraction, verification, each at most
\* once.
ClaimedOrder ==
    <<"serialize", "sha384_update", "sha384_finish", "try_into",
      "public_key", "ec_key", "verify">>

NotHasherNew(op) == op # "sha384_new"

C9_ClaimedOrder ==
    \A c \in Callers : IsPrefix(SelectSeq(calls[c], NotHasherNew), ClaimedOrder)

\* Whether operation op of validate fails for the caller's inputs, and the
\* error validate returns when it does.
Fails(c, op) ==
    CASE op = "try_into" -> ~SigWellFormed(c)
      [] op = "public_key" -> ~X509PublicKey(vcek[c]).ok
      [] op = "ec_key" -> ~PKeyEcKey(vcek[c]).ok
      [] op = "verify" -> ~Verification(c).ok \/ ~Verification(c).value
      [] OTHER -> FALSE

ErrorOf(c, op) ==
    IF op = "verify" /\ Verification(c).ok THEN "MeasurementSignature" ELSE "OpenSsl"

FirstFailing(c, order) ==
    IF \E i \in DOMAIN order : Fails(c, order[i])
    THEN CHOOSE i \in DOMAIN order :
            Fails(c, order[i]) /\ \A j \in 1..(i - 1) : ~Fails(c, order[j])
    ELSE 0

\* C9, amended: after the TCB gate validate converts the signature, extracts
\* the EC public key, creates the hasher, re-encodes the report for the
\* signed prefix, computes the digest and runs the verification, in this
\* order, each at most once; it stops at the first failing step and returns
\* that step's error.
C9_CodeOrder ==
    \A c \in Callers :
        /\ IsPrefix(calls[c], CodeOrder)
        /\ (Returned(c) /\ report[c].reported_tcb = report[c].committed_tcb) =>
              LET f == FirstFailing(c, CodeOrder)
              IN IF f = 0
                 THEN calls[c] = CodeOrder /\ result[c] = "Ok"
                 ELSE /\ calls[c] = SubSeq(CodeOrder, 1, f)
                      /\ result[c] = ErrorOf(c, CodeOrder[f])

\* validate stopped at the key extraction: the signature was converted, and
\* neither the re-encoding nor the hashing was started.
C9_Witness ==
    \E c \in Callers :
        /\ Returned(c) /\ result[c] = "OpenSsl"
        /\ calls[c] = <<"try_into", "public_key", "ec_key">>

\* C10: every call of validate ends with an explicit result and never aborts:
\* the slice bound SizeOfReport - SizeOfSignature of get_report_base is not
\* negative and not beyond the re-serialized bytes, a call that has not
\* returned can take its next step, and it takes at most one step per
\* operation of validate.
C10_NoAbort ==
    \A c \in Callers :
        /\ pc[c] # "aborted" /\ result[c] # "panic"
        /\ Parsed(c) =>
              /\ SizeOfReport - SizeOfSignature >= 0
              /\ SizeOfReport - SizeOfSignature <= Len(Serialize(report[c]).bytes)
        /\ Returned(c) => result[c] \in ValidateResults
        /\ (Parsed(c) /\ ~Returned(c)) => ENABLED Step(c)
        /\ Len(calls[c]) <= Len(CodeOrder)

\* get_report_base has sliced the re-serialized report and validate has
\* returned.
C10_Witness ==
    \E c \in Callers :
        /\ Returned(c) /\ HasCalled(c, "serialize")
        /\ base_message[c] # <<>>
        /\ result[c] \in ValidateResults

====
